---- MODULE Spec2Model ----
(***************************************************************************)
(* A model of clickupy's ClickUpClient (src/clickupy/client.py).           *)
(*                                                                         *)
(* One client object issues one synchronous call at a time.  A call is     *)
(* split at the only point where the environment acts: a resource method   *)
(* runs up to the HTTP call (the method's action), the server answers      *)
(* with a status code and a body, and the request primitive and the rest   *)
(* of the method run to completion (Receive).                              *)
(*                                                                         *)
(* Python values: an optional value is a set with at most one element:     *)
(* None is {}, a value v is {v}.                                           *)
(***************************************************************************)
EXTENDS Integers, Sequences, FiniteSets, TLC

VARIABLES
    api_url,       \* self.api_url
    accesstoken,   \* self.accesstoken
    pc,            \* "idle" | "sent" | "done": position of the current call
    call,          \* the current call: method name and its actual parameters
    request,       \* the HTTP request the call has issued (NoRequest if none)
    response,      \* the server's answer to that request (NoResponse if none)
    prim,          \* outcome of the request primitive the method delegated to
    outcome        \* outcome of the resource method itself

vars == <<api_url, accesstoken, pc, call, request, response, prim, outcome>>

\* ------------------------------------------------------------------ bounds
MaxPriority == 5
MaxAssignee == 1

\* --------------------------------------------------------------- constants
API_URL == "https://api.clickup.com/api/v2/"

None == {}
Some(v) == {v}
The(o) == CHOOSE v \in o : TRUE

\* Python truthiness of an optional str / int / list / bool.
TruthyStr(o) == o # None /\ The(o) # ""
TruthyInt(o) == o # None /\ The(o) # 0
TruthyList(o) == o # None /\ Len(The(o)) > 0

\* ------------------------------------------------------------ input sets
ApiUrls == {API_URL, "https://staging.example/api/v2/"}
Tokens == {"pk_token"}
Ids == {"id1"}
OptText(s) == {None, Some(s)}
Priorities == {None} \cup {Some(p) : p \in -1..MaxPriority}
OptBool == {None, Some(TRUE), Some(FALSE)}
AssigneeLists == {None, Some(<<>>)} \cup {Some(<<u>>) : u \in 1..MaxAssignee}
DateExprs == {None, Some(""), Some("tomorrow")}
StatusCodes == {200, 304, 400, 401, 404, 429, 500}

\* ------------------------------------------------- dates (helpers.timefuncs)
\* A date travelling through the client is either the caller's expression or
\* an epoch value.
RawDate(e) == [isEpoch |-> FALSE, expr |-> e, epoch |-> 0]
EpochDate(n) == [isEpoch |-> TRUE, expr |-> "", epoch |-> n]
NowMs == 1000000
DayMs == 86400000
fuzzy_time_to_unix(d) ==
    IF d.expr = "tomorrow" THEN EpochDate(NowMs + DayMs) ELSE EpochDate(NowMs)
OptRaw(o) == IF o = None THEN None ELSE Some(RawDate(The(o)))

\* --------------------------------------------------------- JSON responses
\* The decoded body of a response: which of the keys 'err' and 'id' the
\* object carries.  parses = FALSE is a body response.json() cannot decode.
Body(parses, err, id) == [parses |-> parses, err |-> err, id |-> id]
EmptyJson == Body(TRUE, None, None)
Bodies == { Body(FALSE, None, None),
            EmptyJson,
            Body(TRUE, Some("Team not authorized"), None),
            Body(TRUE, None, Some("r1")) }
TruthyJson(b) == b.err # None \/ b.id # None
Responses == [status_code : StatusCodes, body : Bodies]
\* requests.Response.ok: raise_for_status() raises for 400 <= status < 600.
NoResponse == [status_code |-> 0, body |-> Body(FALSE, None, None)]
ok(resp) == ~(400 <= resp.status_code /\ resp.status_code < 600)

\* ------------------------------------------------------------- outcomes
NoValue == [tag |-> "None", rtype |-> "", json |-> EmptyJson, flag |-> FALSE, num |-> 0]
JsonValue(b) == [NoValue EXCEPT !.tag = "json", !.json = b]
BoolValue(f) == [NoValue EXCEPT !.tag = "bool", !.flag = f]
IntValue(n) == [NoValue EXCEPT !.tag = "int", !.num = n]
RecordValue(t, b) == [NoValue EXCEPT !.tag = "record", !.rtype = t, !.json = b]

Pending == [kind |-> "pending", exc |-> "", msg |-> "", code |-> 0, note |-> "", value |-> NoValue]
Return(v) == [Pending EXCEPT !.kind = "return", !.value = v]
Raise(e, m, c, n) == [Pending EXCEPT !.kind = "raise", !.exc = e, !.msg = m, !.code = c, !.note = n]
\* exceptions.ClickupClientError(message, status_code)
ClickupClientError(m, c) == Raise("ClickupClientError", m, c, "")
\* the priority check passes a text where the status code goes
PriorityError == Raise("ClickupClientError", "Priority must be in range of 0-4.", 0, "Priority out of range")

\* ------------------------------------------------------ dicts and headers
\* A Python dict whose keys are drawn from the local names of the methods:
\* the set of keys present, and the value bound to each (None when absent or
\* bound to None).
NoVals == [self |-> None, arguments |-> None, list_id |-> None, task_id |-> None,
           comment_id |-> None, name |-> None, description |-> None,
           priority |-> None, assignees |-> None, tags |-> None, status |-> None,
           due_date |-> None, start_date |-> None, notify_all |-> None,
           time_estimate |-> None, archived |-> None, add_assignees |-> None,
           remove_assignees |-> None, comment_text |-> None, assignee |-> None,
           resolved |-> None, content |-> None, filename |-> None]
EmptyDict == [keys |-> {}, vals |-> NoVals]
\* dict.pop(k, None)
Pop(d, k) == [keys |-> d.keys \ {k}, vals |-> [d.vals EXCEPT ![k] = None]]
\* dict.update({k: v})
Put(d, k, v) == [keys |-> d.keys \cup {k}, vals |-> [d.vals EXCEPT ![k] = v]]
\* the comprehension without its filter
DropNone_KeepsNulls(d) == d
\* {k: v for k, v in arguments.items() if v is not None}
DropNone(d) == [keys |-> {k \in d.keys : d.vals[k] # None}, vals |-> d.vals]
\* vars() of a method: every local name bound at that point, with its value
Locals(names, a) ==
    [keys |-> names,
     vals |-> [k \in DOMAIN NoVals |->
                 IF k \notin names THEN None
                 ELSE IF k = "self" THEN Some("client")
                 ELSE IF k = "arguments" THEN Some("{}")
                 ELSE a[k]]]

\* The value of the 'assignees' key: a plain list (create_task) or an object
\* with optional 'add' and 'rem' entries (update_task).
AssigneeList(l) == [items |-> l, add |-> None, rem |-> None]
AssigneeObj(a, r) == [items |-> None, add |-> a, rem |-> r]
OptAssigneeList(o) == IF o = None THEN None ELSE Some(AssigneeList(o))

headers(token, file_upload) ==
    IF file_upload
    THEN [Authorization |-> token, ContentType |-> None]
    ELSE [Authorization |-> token, ContentType |-> Some("application/json")]

\* formatting.url_join(base, model, *additionalpath): the parts in order
url_join(base, model, additionalpath) == <<base, model>> \o additionalpath

NoRequest == [verb |-> "", url |-> <<>>, headers |-> headers("", FALSE),
              data |-> EmptyDict, json |-> FALSE, files |-> FALSE]
Sent == request.verb # ""

\* ------------------------------------------------- the request primitives
\* The part of each primitive before the HTTP call: the request it issues.
get_call(token, model, additionalpath) ==
    [verb |-> "GET", url |-> url_join(API_URL, model, additionalpath),
     headers |-> headers(token, FALSE), data |-> EmptyDict, json |-> FALSE,
     files |-> FALSE]
post_call(token, model, data, json, upload_files, additionalpath) ==
    [verb |-> "POST", url |-> url_join(API_URL, model, additionalpath),
     headers |-> headers(token, upload_files), data |-> data, json |-> json,
     files |-> upload_files]
put_call(token, model, data, additionalpath) ==
    [verb |-> "PUT", url |-> url_join(API_URL, model, additionalpath),
     headers |-> headers(token, FALSE), data |-> data, json |-> TRUE,
     files |-> FALSE]
delete_call(token, model, additionalpath) ==
    [verb |-> "DELETE", url |-> url_join(API_URL, model, additionalpath),
     headers |-> headers(token, FALSE), data |-> EmptyDict, json |-> FALSE,
     files |-> FALSE]

\* response_json['err'] of a decoded body
ErrOf(resp, k) ==
    IF resp.body.err = None THEN Raise("KeyError", "err", 0, "")
    ELSE ClickupClientError(The(resp.body.err), k)

\* __get_request raising on every failure status instead of falling through
get_request_RaisesOnFailure(resp) ==
    IF ~resp.body.parses THEN Raise("JSONDecodeError", "", 0, "")
    ELSE IF resp.status_code = 429
         THEN ClickupClientError("Rate limit exceeded", resp.status_code)
    ELSE IF ok(resp) THEN Return(JsonValue(resp.body))
    ELSE ErrOf(resp, resp.status_code)

\* The part of each primitive after the HTTP call.
get_request(resp) ==
    IF ~resp.body.parses THEN Raise("JSONDecodeError", "", 0, "")
    ELSE IF resp.status_code = 429
         THEN ClickupClientError("Rate limit exceeded", resp.status_code)
    ELSE IF resp.status_code \in {401, 400}
         THEN ErrOf(resp, resp.status_code)
    ELSE IF ok(resp) THEN Return(JsonValue(resp.body))
    ELSE Return(NoValue)

post_request(resp) ==
    IF ~resp.body.parses THEN Raise("JSONDecodeError", "", 0, "")
    ELSE IF resp.status_code = 401 \/ resp.status_code = 400
            \/ resp.status_code = 500
         THEN ErrOf(resp, resp.status_code)
    ELSE IF ok(resp) THEN Return(JsonValue(resp.body))
    ELSE Return(NoValue)

put_request(resp) ==
    IF ~resp.body.parses THEN Raise("JSONDecodeError", "", 0, "")
    ELSE IF resp.status_code = 401 \/ resp.status_code = 400
         THEN ErrOf(resp, resp.status_code)
    ELSE IF ok(resp) THEN Return(JsonValue(resp.body))
    ELSE Return(NoValue)

\* response_json is never bound in __delete_request
delete_request(resp) ==
    IF ok(resp) THEN Return(IntValue(resp.status_code))
    ELSE Raise("NameError", "response_json", 0, "")

Primitive(verb, resp) ==
    CASE verb = "GET" -> get_request(resp)
      [] verb = "POST" -> post_request(resp)
      [] verb = "PUT" -> put_request(resp)
      [] verb = "DELETE" -> delete_request(resp)

\* ------------------------------------------------------------- builders
\* build_list, build_folder, build_task, ...: the typed record whose fields
\* are the payload's fields.  Handed None (the primitive fell through), a
\* builder either fails on the missing payload or yields an all-default
\* record.
Build(rtype, v, noneFails) ==
    IF v.tag = "None"
    THEN IF noneFails THEN Raise("TypeError", "", 0, "")
         ELSE Return(RecordValue(rtype, EmptyJson))
    ELSE Return(RecordValue(rtype, v.json))

\* `if fetched:` on what a primitive returned
TruthyValue(v) ==
    CASE v.tag = "None" -> FALSE
      [] v.tag = "json" -> TruthyJson(v.json)
      [] v.tag = "int" -> v.num # 0
      [] OTHER -> TRUE

\* x = builder(result); return x
BuildAlways(rtype, p, noneFails) == Build(rtype, p.value, noneFails)
\* if result: return builder(result)
BuildIfTruthy(rtype, p) ==
    IF TruthyValue(p.value) THEN Return(RecordValue(rtype, p.value.json))
    ELSE Return(NoValue)

\* ------------------------------------------- bodies of the write methods
range(lo, hi) == lo..(hi - 1)
\* `if priority and priority not in range(1, 4)`
PriorityRejected(priority) ==
    TruthyInt(priority) /\ The(priority) \notin range(1, 4)

TruthyDate(o) == o # None /\ The(o).expr # ""

create_list_data(a) ==
    [keys |-> {"name", "content", "due_date", "status"},
     vals |-> [NoVals EXCEPT !.name = a.name, !.content = a.content,
                             !.due_date = a.due_date, !.status = a.status]]

create_folder_data(a) ==
    [keys |-> {"name"}, vals |-> [NoVals EXCEPT !.name = a.name]]

create_task_locals ==
    {"self", "list_id", "name", "description", "priority", "assignees",
     "tags", "status", "due_date", "start_date", "notify_all", "arguments"}
create_task_data(a) ==
    LET due_date == IF TruthyDate(a.due_date)
                    THEN Some(fuzzy_time_to_unix(The(a.due_date)))
                    ELSE a.due_date
        arguments == Locals(create_task_locals, [a EXCEPT !.due_date = due_date])
    IN DropNone(Pop(Pop(Pop(arguments, "self"), "arguments"), "list_id"))

update_task_locals ==
    {"self", "task_id", "name", "description", "status", "priority",
     "time_estimate", "archived", "add_assignees", "remove_assignees",
     "arguments"}
update_task_data(a) ==
    LET arguments == Pop(Pop(Pop(Pop(Pop(Locals(update_task_locals, a),
                         "self"), "arguments"), "task_id"),
                         "add_assignees"), "remove_assignees")
        add == The(a.add_assignees)
        rem == The(a.remove_assignees)
        withAssignees ==
            IF TruthyList(a.add_assignees) /\ TruthyList(a.remove_assignees)
            THEN Put(arguments, "assignees", Some(AssigneeObj(Some(add), Some(rem))))
            ELSE IF TruthyList(a.add_assignees)
            THEN Put(arguments, "assignees", Some(AssigneeObj(Some(add), None)))
            ELSE IF TruthyList(a.remove_assignees)
            THEN Put(arguments, "assignees", Some(AssigneeObj(None, Some(rem))))
            ELSE arguments
    IN DropNone(withAssignees)

update_comment_locals ==
    {"self", "comment_id", "comment_text", "assignee", "resolved", "arguments"}
update_comment_data(a) ==
    DropNone(Pop(Pop(Pop(Locals(update_comment_locals, a),
                 "self"), "arguments"), "comment_id"))

create_task_comment_locals ==
    {"self", "task_id", "comment_text", "assignee", "notify_all", "arguments"}
create_task_comment_data(a) ==
    DropNone(Pop(Pop(Pop(Locals(create_task_comment_locals, a),
                 "self"), "arguments"), "task_id"))

\* ntpath.basename of the paths the model uploads
FilePaths == {"/tmp/report.pdf"}
basename(path) == IF path = "/tmp/report.pdf" THEN "report.pdf" ELSE path
upload_attachment_data(path) ==
    [keys |-> {"filename"},
     vals |-> [NoVals EXCEPT !.filename = Some(basename(path))]]

\* ------------------------------------------------------------ the client
NoCall == [method |-> "", id |-> "", a |-> NoVals, path |-> "", exists |-> FALSE]
Call(m, id, a) == [NoCall EXCEPT !.method = m, !.id = id, !.a = a]

\* ClickUpClient(accesstoken, api_url = API_URL)
Init ==
    /\ api_url \in ApiUrls
    /\ accesstoken \in Tokens
    /\ pc = "idle"
    /\ call = NoCall
    /\ request = NoRequest
    /\ response = NoResponse
    /\ prim = Pending
    /\ outcome = Pending

\* A method reaches its HTTP call: the request goes out.
Send(c, r) ==
    /\ call' = c
    /\ request' = r
    /\ pc' = "sent"
    /\ UNCHANGED <<api_url, accesstoken, response, prim, outcome>>

\* A method ends before any HTTP call.
Finish(c, o) ==
    /\ call' = c
    /\ outcome' = o
    /\ pc' = "done"
    /\ UNCHANGED <<api_url, accesstoken, request, response, prim>>

Fetch(m, model, tail) ==
    /\ pc = "idle"
    /\ \E id \in Ids :
           Send(Call(m, id, NoVals), get_call(accesstoken, model, <<id>> \o tail))

Delete(m, model) ==
    /\ pc = "idle"
    /\ \E id \in Ids :
           Send(Call(m, id, NoVals), delete_call(accesstoken, model, <<id>>))

get_list == Fetch("get_list", "list/", <<>>)
get_lists == Fetch("get_lists", "folder/", <<>>)
get_folder == Fetch("get_folder", "folder/", <<>>)
get_folders == Fetch("get_folders", "space/", <<"folder">>)
get_task == Fetch("get_task", "task/", <<>>)
get_tasks == Fetch("get_tasks", "list/", <<"task">>)
get_task_comments == Fetch("get_task_comments", "task/", <<"comment">>)
get_list_comments == Fetch("get_list_comments", "list/", <<"comment">>)
get_chat_comments == Fetch("get_chat_comments", "view/", <<"comment">>)

delete_folder == Delete("delete_folder", "folder/")
delete_task == Delete("delete_task", "task/")
delete_comment == Delete("delete_comment", "comment/")

create_list ==
    /\ pc = "idle"
    /\ \E id \in Ids, content \in OptText("c"), due_date \in DateExprs,
          priority \in {None, Some(1)}, status \in OptText("red") :
           LET a == [NoVals EXCEPT !.name = Some("n"), !.content = content,
                                   !.due_date = OptRaw(due_date),
                                   !.priority = priority, !.status = status]
           IN Send(Call("create_list", id, a),
                   post_call(accesstoken, "folder/", create_list_data(a), TRUE,
                             FALSE, <<id, "list">>))

create_folder ==
    /\ pc = "idle"
    /\ \E id \in Ids :
           LET a == [NoVals EXCEPT !.name = Some("n")]
           IN Send(Call("create_folder", id, a),
                   post_call(accesstoken, "space/", create_folder_data(a), TRUE,
                             FALSE, <<id, "folder">>))

update_folder ==
    /\ pc = "idle"
    /\ \E id \in Ids :
           LET a == [NoVals EXCEPT !.name = Some("n")]
           IN Send(Call("update_folder", id, a),
                   put_call(accesstoken, "folder/", create_folder_data(a), <<id>>))

upload_attachment ==
    /\ pc = "idle"
    /\ \E id \in Ids, path \in FilePaths, exists \in BOOLEAN :
           LET c == [Call("upload_attachment", id, NoVals)
                        EXCEPT !.path = path, !.exists = exists]
           IN IF exists
              THEN Send(c, post_call(accesstoken, "task/" \o id,
                                     upload_attachment_data(path), FALSE, TRUE,
                                     <<"attachment">>))
              ELSE Finish(c, Return(NoValue))

create_task ==
    /\ pc = "idle"
    /\ \E id \in Ids, description \in OptText("d"), priority \in Priorities,
          assignees \in AssigneeLists, tags \in OptText(<<"t">>),
          status \in OptText("open"), due_date \in DateExprs,
          start_date \in DateExprs, notify_all \in OptBool :
           LET a == [NoVals EXCEPT !.list_id = Some(id), !.name = Some("n"),
                                   !.description = description,
                                   !.priority = priority,
                                   !.assignees = OptAssigneeList(assignees),
                                   !.tags = tags, !.status = status,
                                   !.due_date = OptRaw(due_date),
                                   !.start_date = OptRaw(start_date),
                                   !.notify_all = notify_all]
               c == Call("create_task", id, a)
           IN IF PriorityRejected(priority)
              THEN Finish(c, PriorityError)
              ELSE Send(c, post_call(accesstoken, "list/", create_task_data(a),
                                     TRUE, FALSE, <<id, "task">>))

update_task ==
    /\ pc = "idle"
    /\ \E id \in Ids, name \in OptText("n"), description \in OptText("d"),
          status \in OptText("open"), priority \in Priorities,
          time_estimate \in OptText(3600), archived \in OptBool,
          add_assignees \in AssigneeLists, remove_assignees \in AssigneeLists :
           LET a == [NoVals EXCEPT !.task_id = Some(id), !.name = name,
                                   !.description = description,
                                   !.status = status, !.priority = priority,
                                   !.time_estimate = time_estimate,
                                   !.archived = archived,
                                   !.add_assignees = add_assignees,
                                   !.remove_assignees = remove_assignees]
               c == Call("update_task", id, a)
           IN IF PriorityRejected(priority)
              THEN Finish(c, PriorityError)
              ELSE Send(c, put_call(accesstoken, "task/", update_task_data(a),
                                    <<id>>))

update_comment ==
    /\ pc = "idle"
    /\ \E id \in Ids, comment_text \in OptText("hi"), assignee \in OptText("u1"),
          resolved \in OptBool :
           LET a == [NoVals EXCEPT !.comment_id = Some(id),
                                   !.comment_text = comment_text,
                                   !.assignee = assignee, !.resolved = resolved]
           IN Send(Call("update_comment", id, a),
                   put_call(accesstoken, "comment/", update_comment_data(a),
                            <<id>>))

create_task_comment ==
    /\ pc = "idle"
    /\ \E id \in Ids, comment_text \in OptText("hi"), assignee \in OptText("u1"),
          notify_all \in OptBool :
           LET a == [NoVals EXCEPT !.task_id = Some(id),
                                   !.comment_text = comment_text,
                                   !.assignee = assignee,
                                   !.notify_all = notify_all]
           IN Send(Call("create_task_comment", id, a),
                   post_call(accesstoken, "task/", create_task_comment_data(a),
                             TRUE, FALSE, <<id, "comment">>))

\* ------------------------------------------ the rest of a resource method
\* What each method does with what its primitive returned.  An error raised
\* by the primitive propagates unchanged.
RecordType(m) ==
    CASE m \in {"get_list", "create_list"} -> "SingleList"
      [] m = "get_lists" -> "AllLists"
      [] m \in {"get_folder", "create_folder", "update_folder"} -> "Folder"
      [] m = "get_folders" -> "Folders"
      [] m = "upload_attachment" -> "Attachment"
      [] m \in {"get_task", "create_task", "update_task"} -> "Task"
      [] m = "get_tasks" -> "Tasks"
      [] m \in {"get_task_comments", "get_list_comments", "get_chat_comments"}
            -> "Comments"
      [] m \in {"update_comment", "create_task_comment"} -> "Comment"
      [] OTHER -> ""

BuildsAlways ==
    {"get_list", "get_lists", "get_task", "get_tasks", "get_task_comments",
     "get_list_comments", "get_chat_comments", "create_task_comment"}
BuildsIfTruthy ==
    {"create_list", "get_folder", "get_folders", "create_folder",
     "update_folder", "create_task", "update_task"}
Deletes == {"delete_folder", "delete_task", "delete_comment"}

update_comment_result(p) ==
    IF TruthyValue(p.value) THEN Return(BoolValue(TRUE)) ELSE Return(NoValue)

upload_attachment_result(p) ==
    IF TruthyValue(p.value)
    THEN Return(RecordValue("Attachment", p.value.json))
    ELSE Raise("UnboundLocalError", "final_attachment", 0, "")

Complete(m, p, noneFails) ==
    IF p.kind = "raise" THEN p
    ELSE CASE m \in BuildsAlways -> BuildAlways(RecordType(m), p, noneFails)
           [] m \in BuildsIfTruthy -> BuildIfTruthy(RecordType(m), p)
           [] m \in Deletes -> Return(BoolValue(TRUE))
           [] m = "update_comment" -> update_comment_result(p)
           [] m = "upload_attachment" -> upload_attachment_result(p)

\* The server answers; the primitive interprets the status and the method
\* finishes.
Receive ==
    /\ pc = "sent"
    /\ \E resp \in Responses, noneFails \in BOOLEAN :
        LET p == Primitive(request.verb, resp)
        IN /\ response' = resp
           /\ prim' = p
           /\ outcome' = Complete(call.method, p, noneFails)
    /\ pc' = "done"
    /\ UNCHANGED <<api_url, accesstoken, call, request>>

\* The caller makes its next call on the same client.
NextCall ==
    /\ pc = "done"
    /\ pc' = "idle"
    /\ call' = NoCall
    /\ request' = NoRequest
    /\ response' = NoResponse
    /\ prim' = Pending
    /\ outcome' = Pending
    /\ UNCHANGED <<api_url, accesstoken>>

Next ==
    \/ get_list \/ get_lists \/ create_list
    \/ get_folder \/ get_folders \/ create_folder \/ update_folder
    \/ delete_folder
    \/ upload_attachment
    \/ get_task \/ get_tasks \/ create_task \/ update_task \/ delete_task
    \/ get_task_comments \/ get_list_comments \/ get_chat_comments
    \/ update_comment \/ delete_comment \/ create_task_comment
    \/ Receive
    \/ NextCall

Spec == Init /\ [][Next]_vars

\* ================================================================ claims
Answered == pc = "done" /\ Sent
TaskWrites == {"create_task", "update_task"}
RaisedClientError(o) == o.kind = "raise" /\ o.exc = "ClickupClientError"

\* C1: in create_task and update_task every supplied priority outside 1..4
\* (0, negative, above 4) raises ClickupClientError, and no HTTP request has
\* been issued when it is raised.
C1_OutOfRangePriorityRaisesBeforeRequest ==
    ( /\ pc \in {"sent", "done"}
      /\ call.method \in TaskWrites
      /\ call.a.priority # None
      /\ The(call.a.priority) \notin 1..4 )
    => /\ pc = "done"
       /\ RaisedClientError(outcome)
       /\ ~Sent

\* C2: in create_task and update_task every priority in 1..4 passes the
\* precondition: no priority error, and the request goes out with that
\* priority in its body.
C2_InRangePriorityIsSent ==
    ( /\ pc \in {"sent", "done"}
      /\ call.method \in TaskWrites
      /\ call.a.priority # None
      /\ The(call.a.priority) \in 1..4 )
    => /\ outcome # PriorityError
       /\ Sent
       /\ "priority" \in request.data.keys
       /\ request.data.vals.priority = call.a.priority

\* C3: for GET, POST, PUT and DELETE a 429 response ends the primitive with a
\* ClickupClientError that signals the rate limit and carries 429; the
\* primitive never returns normally.
C3_RateLimitRaises ==
    (Answered /\ response.status_code = 429)
    => /\ RaisedClientError(prim)
       /\ prim.msg = "Rate limit exceeded"
       /\ prim.code = 429

\* C4: for GET, POST, PUT and DELETE a 400 or 401 response carrying the
\* server's 'err' message ends the primitive with a ClickupClientError whose
\* message is that 'err' and whose status code is the response's; no other
\* kind of error is raised.
C4_BadRequestRaisesServerMessage ==
    ( /\ Answered
      /\ response.status_code \in {400, 401}
      /\ response.body.parses
      /\ response.body.err # None )
    => prim = ClickupClientError(The(response.body.err), response.status_code)

\* C5: for POST and PUT a 500 response carrying the server's 'err' message
\* ends the primitive with a ClickupClientError carrying that message and
\* 500; a write never returns normally on a 500.
C5_WriteServerErrorRaises ==
    ( /\ Answered
      /\ request.verb \in {"POST", "PUT"}
      /\ response.status_code = 500
      /\ response.body.parses
      /\ response.body.err # None )
    => prim = ClickupClientError(The(response.body.err), 500)

\* The body parameters of the four methods that filter their arguments.
Filtering ==
    {"create_task", "update_task", "update_comment", "create_task_comment"}
BodyParams(m) ==
    CASE m = "create_task" ->
            {"name", "description", "priority", "assignees", "tags",
             "status", "due_date", "start_date", "notify_all"}
      [] m = "update_task" ->
            {"name", "description", "status", "priority", "time_estimate",
             "archived"}
      [] m = "update_comment" -> {"comment_text", "assignee", "resolved"}
      [] m = "create_task_comment" -> {"comment_text", "assignee", "notify_all"}
      [] OTHER -> {}
\* the 'add' / 'rem' entry of the body's 'assignees' object, None if absent
AddEntry ==
    IF "assignees" \in request.data.keys
    THEN The(request.data.vals.assignees).add ELSE None
RemEntry ==
    IF "assignees" \in request.data.keys
    THEN The(request.data.vals.assignees).rem ELSE None
PlainKeysFiltered ==
    request.data.keys \ {"assignees"} =
        {k \in BodyParams(call.method) \ {"assignees"} : call.a[k] # None}

\* C6 as stated: the body of create_task, update_task, update_comment and
\* create_task_comment has a key for a body parameter iff the parameter is
\* non-null, update_task's add_assignees / remove_assignees appear as the
\* 'add' / 'rem' entries of one 'assignees' key iff they are non-null, and
\* the resource id is never a key.
C6_KeyIffNonNull ==
    (Sent /\ call.method \in Filtering)
    => /\ PlainKeysFiltered
       /\ call.method = "update_task" =>
            /\ AddEntry = call.a.add_assignees
            /\ RemEntry = call.a.remove_assignees
            /\ ("assignees" \in request.data.keys) <=>
                 (call.a.add_assignees # None \/ call.a.remove_assignees # None)
       /\ call.method # "update_task" =>
            ("assignees" \in request.data.keys) <=>
               ("assignees" \in BodyParams(call.method) /\ call.a.assignees # None)

NonEmpty(l) == IF TruthyList(l) THEN l ELSE None
\* C6 amended: as C6, except that add_assignees / remove_assignees appear as
\* the 'add' / 'rem' entries iff they are non-null and non-empty, and the
\* 'assignees' key is present iff one of them is.
C6_KeyIffNonNullOrEmptyList ==
    (Sent /\ call.method \in Filtering)
    => /\ PlainKeysFiltered
       /\ call.method = "update_task" =>
            /\ AddEntry = NonEmpty(call.a.add_assignees)
            /\ RemEntry = NonEmpty(call.a.remove_assignees)
            /\ ("assignees" \in request.data.keys) <=>
                 (TruthyList(call.a.add_assignees)
                    \/ TruthyList(call.a.remove_assignees))
       /\ call.method # "update_task" =>
            ("assignees" \in request.data.keys) <=>
               ("assignees" \in BodyParams(call.method) /\ call.a.assignees # None)

\* an update_task went out with an empty add list, a non-empty remove list
\* and both a supplied and an omitted plain parameter
C6_Witness ==
    /\ Sent
    /\ call.method = "update_task"
    /\ call.a.add_assignees = Some(<<>>)
    /\ TruthyList(call.a.remove_assignees)
    /\ call.a.name # None
    /\ call.a.description = None
    /\ request.data.keys = {"name", "assignees"}

\* C7: every date parameter of a create method (create_task's due_date and
\* start_date, create_list's due_date) is converted to the epoch value before
\* it goes into the body: when supplied, the body never carries the caller's
\* raw expression.  (A supplied expression is a non-empty text.)
DateParams(m) ==
    CASE m = "create_task" -> {"due_date", "start_date"}
      [] m = "create_list" -> {"due_date"}
      [] OTHER -> {}
C7_DatesConverted ==
    Sent =>
        \A k \in DateParams(call.method) :
            TruthyDate(call.a[k]) =>
                /\ k \in request.data.keys
                /\ The(request.data.vals[k]).isEpoch

\* C8: every fetch, create and update method, answered 2xx with a JSON body,
\* returns the typed record its builder makes of that body, never a bare
\* flag or nothing.
C8_ReturnsBuiltRecord ==
    ( /\ Answered
      /\ call.method \notin Deletes
      /\ response.status_code \in 200..299
      /\ response.body.parses )
    => outcome = Return(RecordValue(RecordType(call.method), response.body))

Recognized(verb) ==
    {429, 400, 401} \cup (IF verb \in {"POST", "PUT"} THEN {500} ELSE {})
\* C9 as stated: for every primitive, a response whose status is neither 2xx
\* nor a recognized failure code (429, 400, 401, 500 for writes) falls
\* through: no error is raised and no body is returned.
C9_UnrecognizedFallsThrough ==
    ( /\ Answered
      /\ response.status_code \notin 200..299
      /\ response.status_code \notin Recognized(request.verb) )
    => prim = Return(NoValue)

\* C9 amended: for GET, POST and PUT a 4xx/5xx response that is not a
\* recognized failure code falls through (no error, nothing returned) when
\* its body decodes as JSON, and raises the decoding error when it does not;
\* DELETE never falls through: every 4xx/5xx response raises an error.
C9_UnrecognizedErrorStatus ==
    ( /\ Answered
      /\ response.status_code \in 400..599
      /\ response.status_code \notin Recognized(request.verb) )
    => IF request.verb = "DELETE" THEN prim.kind = "raise"
       ELSE IF response.body.parses THEN prim = Return(NoValue)
       ELSE prim.kind = "raise" /\ prim.exc = "JSONDecodeError"

\* a GET answered 404 with a JSON body fell through
C9_Witness ==
    /\ Answered
    /\ request.verb = "GET"
    /\ response.status_code = 404
    /\ response.body.parses
    /\ prim = Return(NoValue)

\* C10: the URL of every request starts with the api_url the client was
\* constructed with, followed by the resource path and the path segments.
C10_UrlStartsWithApiUrl ==
    Sent => /\ Len(request.url) >= 2
            /\ request.url[1] = api_url

====
